---- MODULE Spec2Model ----
(***************************************************************************)
(* Model of the Saudi stock bot (src/bot.py): the detection sweep          *)
(* check_opportunities with its four detectors, create_opportunity, the    *)
(* alert and report broadcasts, get_top_movers, approve_group, the jobs    *)
(* run() hands to the scheduler, and the daily query counter of            *)
(* handle_stock_analysis with its midnight reset.                          *)
(*                                                                         *)
(* Prices are integers in halalas (1/100 SAR); a value the code keeps as   *)
(* an unrounded float (an EMA, a stop-loss) is an exact fraction [n, d].   *)
(* One step of the sweep handles one symbol of STOCK_SYMBOLS: download,    *)
(* the four detectors, and for each detector that fires the creation of    *)
(* the Opportunity with the alert broadcast it awaits.                     *)
(***************************************************************************)
EXTENDS Integers, Sequences, FiniteSets, TLC

\* ------------------------------------------------------------------------
\* Configuration (src/bot.py:18-25)
\* ------------------------------------------------------------------------
STOCK_SYMBOLS == <<"1211.SR", "2222.SR", "3030.SR", "4200.SR">>

Strategies == <<"golden", "earthquake", "volcano", "lightning">>

StrategySet == {Strategies[k] : k \in 1..Len(Strategies)}

\* window of data['High'].rolling(14)
RollWindow == 14

\* spans of the two exponential averages of detect_golden_cross
FastSpan == 50
SlowSpan == 200

\* ------------------------------------------------------------------------
\* Bounds of the model
\* ------------------------------------------------------------------------
\* rows the opportunities table may hold
MaxOpps == 2

\* runs of one job the scheduler's table is followed up to
MaxRunning == 2

PriceLevels == {100, 120}
VolumeLevels == {1, 100}

\* instants of the clock, in hours since start-up
Times == {0, 168, 169}

\* longest ranking the report slices are tried on
MaxListed == 12

\* entry prices create_opportunity is tried on, in halalas
MaxEntry == 40

\* users that send stock codes
UserIds == {"u1", "u2"}

\* ------------------------------------------------------------------------
\* Arithmetic helpers
\* ------------------------------------------------------------------------
Gcd(a, b) ==
    LET gcd[x \in Nat, y \in Nat] == IF y = 0 THEN x ELSE gcd[y, x % y]
    IN  gcd[a, b]

\* exact fraction n/d, d > 0, in lowest terms
Rat(n, d) == LET g == Gcd(n, d) IN [n |-> n \div g, d |-> d \div g]

\* x < y for non-negative fractions, without multiplying the whole parts
RatLess(x, y) ==
    LET fx == x.n \div x.d
        fy == y.n \div y.d
    IN  \/ fx < fy
        \/ fx = fy /\ (x.n % x.d) * y.d < (y.n % y.d) * x.d

\* Python's round(): n/d to the nearest integer, ties to even
RoundHalfEven(n, d) ==
    LET q == n \div d
        r == n % d
    IN  IF 2 * r > d THEN q + 1
        ELSE IF 2 * r < d THEN q
        ELSE IF q % 2 = 0 THEN q ELSE q + 1

SeqSum(s) ==
    LET sum[k \in 0..Len(s)] == IF k = 0 THEN 0 ELSE sum[k - 1] + s[k]
    IN  sum[Len(s)]

SetMax(S) == CHOOSE x \in S : \A y \in S : y <= x
SetMin(S) == CHOOSE x \in S : \A y \in S : x <= y

Abs(n) == IF n < 0 THEN -n ELSE n

\* signed fraction n/d, d > 0, in lowest terms
SignedRat(n, d) == LET g == Gcd(Abs(n), d) IN [n |-> n \div g, d |-> d \div g]

RatAdd(x, y) == SignedRat(x.n * y.d + y.n * x.d, x.d * y.d)

\* ------------------------------------------------------------------------
\* Market data: what yf.download returns for one symbol
\* ------------------------------------------------------------------------
Bars ==
    {[Close |-> c, High |-> h, Low |-> l, Volume |-> v] :
        <<l, c, h>> \in {t \in PriceLevels \X PriceLevels \X PriceLevels :
                            t[1] <= t[2] /\ t[2] <= t[3]},
        v \in VolumeLevels}

QuietBars == {b \in Bars : b.Volume = SetMin(VolumeLevels)}
FlatBars == {b \in QuietBars : b.High = b.Low}

Repeat(b, k) == [i \in 1..k |-> b]

\* non-empty frames of one bar, of two bars, and of RollWindow + 1 bars
\* (the shortest frame on which rolling(14).max().iloc[-2] is a number)
Snapshots ==
    {<<latest>> : latest \in Bars}
    \cup {<<previous, latest>> : previous \in QuietBars, latest \in Bars}
    \cup {Repeat(first, RollWindow - 1) \o <<previous, latest>> :
            first \in FlatBars, previous \in QuietBars, latest \in Bars}

Column(data, name) == [i \in 1..Len(data) |-> data[i][name]]

\* ------------------------------------------------------------------------
\* Detectors (src/bot.py:369-385).  A detector returns "T", "F" or "raise"
\* (IndexError of .iloc on a missing row).
\* ------------------------------------------------------------------------
\* Series.ewm(span=span, adjust=False).mean() at row t
Ewm(x, span, t) ==
    LET ema[k \in 1..Len(x)] ==
            IF k = 1 THEN Rat(x[1], 1)
            ELSE LET y == ema[k - 1]
                 IN  Rat((span - 1) * y.n + 2 * x[k] * y.d, (span + 1) * y.d)
    IN  ema[t]

detect_golden_cross(data) ==
    LET n == Len(data)
        close == Column(data, "Close")
    IN  IF n = 0 THEN "raise"
        ELSE IF ~ RatLess(Ewm(close, SlowSpan, n), Ewm(close, FastSpan, n))
             THEN "F"
        ELSE IF n < 2 THEN "raise"
        ELSE IF ~ RatLess(Ewm(close, SlowSpan, n - 1), Ewm(close, FastSpan, n - 1))
             THEN "T"
        ELSE "F"

\* data['High'].rolling(14).max() at row i: NaN before the window is full
RollingMax(high, i) ==
    IF i < RollWindow THEN [nan |-> TRUE, value |-> 0]
    ELSE [nan |-> FALSE, value |-> SetMax({high[j] : j \in (i - RollWindow + 1)..i})]

detect_earthquake(data) ==
    LET n == Len(data)
        prior == RollingMax(Column(data, "High"), n - 1)
        volume == Column(data, "Volume")
    IN  IF n < 2 THEN "raise"
        ELSE IF prior.nan THEN "F"
        ELSE IF data[n].Close > prior.value /\ volume[n] * n > 2 * SeqSum(volume)
             THEN "T"
        ELSE "F"

detect_volcano(data) ==
    LET n == Len(data)
        high == SetMax({data[i].High : i \in 1..n})
        low == SetMin({data[i].Low : i \in 1..n})
    IN  IF n = 0 THEN "raise"
        ELSE IF 1000 * (data[n].Close - low) > 618 * (high - low) THEN "T"
        ELSE "F"

detect_lightning(data) ==
    LET n == Len(data)
    IN  IF n < 2 THEN "raise"
        ELSE IF 100 * (data[n].High - data[n].Low) > 5 * data[n - 1].Close
             THEN "T"
        ELSE "F"

Detect(strategy, data) ==
    CASE strategy = "golden" -> detect_golden_cross(data)
      [] strategy = "earthquake" -> detect_earthquake(data)
      [] strategy = "volcano" -> detect_volcano(data)
      [] strategy = "lightning" -> detect_lightning(data)

\* ------------------------------------------------------------------------
\* Database rows (src/bot.py:33-83)
\* ------------------------------------------------------------------------
\* default of Group.settings; 'security' is not read by the modelled handlers
DefaultSettings ==
    [reports |-> [hourly |-> TRUE, daily |-> TRUE, weekly |-> TRUE],
     strategies |-> [golden |-> TRUE, earthquake |-> TRUE,
                     volcano |-> TRUE, lightning |-> TRUE]]

Group(chat_id, is_approved, settings) ==
    [chat_id |-> chat_id, is_approved |-> is_approved, settings |-> settings]

\* created_at of a row that is not inserted yet
NoTime == -1

\* a row that starts before its first target
OpportunityIndexBelowZero(symbol, strategy, entry_price, targets, stop_loss) ==
    [symbol |-> symbol, strategy |-> strategy, entry_price |-> entry_price,
     targets |-> targets, stop_loss |-> stop_loss,
     current_target |-> -1, status |-> "active", created_at |-> NoTime]

\* column defaults: current_target 0, status 'active'; created_at is set
\* when the row is inserted
Opportunity(symbol, strategy, entry_price, targets, stop_loss) ==
    [symbol |-> symbol, strategy |-> strategy, entry_price |-> entry_price,
     targets |-> targets, stop_loss |-> stop_loss,
     current_target |-> 0, status |-> "active", created_at |-> NoTime]

\* ------------------------------------------------------------------------
\* create_opportunity and its price rules (src/bot.py:387-424)
\* ------------------------------------------------------------------------
\* the list comprehension of each strategy: [step in percent, number of targets]
TargetRule(strategy) ==
    CASE strategy = "golden" -> [step |-> 5, count |-> 4]
      [] strategy = "earthquake" -> [step |-> 8, count |-> 2]
      [] strategy = "volcano" -> [step |-> 10, count |-> 5]
      [] strategy = "lightning" -> [step |-> 7, count |-> 2]

\* round(entry * (1 + i*step), 2), in halalas
calculate_targets(strategy, entry) ==
    LET rule == TargetRule(strategy)
    IN  [i \in 1..rule.count |-> RoundHalfEven(entry * (100 + i * rule.step), 100)]

\* in halalas, as a fraction
calculate_stop_loss(strategy, data) ==
    LET n == Len(data)
    IN  IF strategy = "golden" THEN Rat(data[n - 1].Low * 98, 100)
        ELSE IF strategy = "earthquake" THEN Rat(data[n].Close * 95, 100)
        ELSE Rat(data[n].Close * 97, 100)

\* the row create_opportunity builds
NewOpportunity(symbol, strategy, data) ==
    LET entry_price == data[Len(data)].Close
    IN  Opportunity(symbol, strategy, entry_price,
                    calculate_targets(strategy, entry_price),
                    calculate_stop_loss(strategy, data))

NoStrategy == ""

\* session.add(opp); session.commit() for the rows one iteration builds:
\* the rows that reach the table, inserted at time at.  lost is the
\* strategy whose commit raises (NoStrategy when every commit succeeds)
Committed(created, lost, at) ==
    LET Kept(o) == o.strategy # lost
        kept == SelectSeq(created, Kept)
    IN  [k \in 1..Len(kept) |-> [kept[k] EXCEPT !.created_at = at]]

\* the alert sent before the commit
AlertedBeforeCommit(created, lost) == created

\* "await self.send_alert_to_groups(opp)" stands after the commit inside the
\* try of create_opportunity: the rows an alert goes out for
Alerted(created, lost) ==
    LET Kept(o) == o.strategy # lost
    IN  SelectSeq(created, Kept)

\* ------------------------------------------------------------------------
\* Broadcasts (src/bot.py:426-451, 490-549)
\* ------------------------------------------------------------------------
\* the alert query without its is_approved filter
AlertRecipientsAnyGroup(table, strategy) ==
    LET Wanted(g) == g.settings.strategies[strategy]
    IN  SelectSeq(table, Wanted)

\* the daily query without its settings filter
DailyRecipientsAnySettings(table) ==
    LET Wanted(g) == g.is_approved
    IN  SelectSeq(table, Wanted)

\* the three queries, rows in table order
AlertRecipients(table, strategy) ==
    LET Wanted(g) == g.is_approved /\ g.settings.strategies[strategy]
    IN  SelectSeq(table, Wanted)

DailyRecipients(table) ==
    LET Wanted(g) == g.is_approved /\ g.settings.reports.daily
    IN  SelectSeq(table, Wanted)

WeeklyRecipients(table) ==
    LET Wanted(g) == g.is_approved /\ g.settings.reports.weekly
    IN  SelectSeq(table, Wanted)

ChatIds(rows) == {rows[i].chat_id : i \in 1..Len(rows)}

NoChat == ""

\* "for group in groups: await send_message(...)" inside one try: the chats
\* reached before the send that raises (failing = the chat whose send raises,
\* NoChat when every send succeeds)
SendLoop(rows, failing) ==
    {rows[i].chat_id : i \in {k \in 1..Len(rows) :
                                \A j \in 1..k : rows[j].chat_id # failing}}

\* what one broadcast did: kind is "alert", "daily" or "weekly"
Broadcast(kind, strategy, rows, failing) ==
    [kind |-> kind, strategy |-> strategy, recipients |-> ChatIds(rows),
     failing |-> failing, delivered |-> SendLoop(rows, failing)]

\* ------------------------------------------------------------------------
\* get_top_movers and the rankings of the daily report
\* (src/bot.py:494-498, 551-562)
\* ------------------------------------------------------------------------
\* outcomes of yf.download(symbol, period=period): an exception, a frame of
\* fewer than two rows, or a frame with its first Open and its last Close
MoverOutcomes ==
    {[kind |-> "error", Open |-> 0, Close |-> 0],
     [kind |-> "short", Open |-> 0, Close |-> 0]}
    \cup {[kind |-> "frame", Open |-> o, Close |-> c] :
            o \in PriceLevels, c \in PriceLevels}

\* one outcome per symbol of STOCK_SYMBOLS
AllQuotes == [1..Len(STOCK_SYMBOLS) -> MoverOutcomes]

\* period='1d' at the daily interval: one row for every symbol
QuietQuotes == {[i \in 1..Len(STOCK_SYMBOLS) |-> [kind |-> "short", Open |-> 0, Close |-> 0]]}

\* round(((close - open) / open) * 100, 2), in hundredths of a percent
PercentChange(open, close) == RoundHalfEven((close - open) * 10000, open)

\* a sort that turns the order of equal keys round
SortedReversingTies(movers) ==
    LET Insert(sorted, m) ==
            LET k == Cardinality({i \in 1..Len(sorted) : sorted[i].change > m.change})
            IN  SubSeq(sorted, 1, k) \o <<m>> \o SubSeq(sorted, k + 1, Len(sorted))
        run[n \in 0..Len(movers)] ==
            IF n = 0 THEN <<>> ELSE Insert(run[n - 1], movers[n])
    IN  run[Len(movers)]

\* sorted(movers, key=lambda x: x[1], reverse=True): descending and stable,
\* entries of equal change keep the order they were appended in
Sorted(movers) ==
    LET Insert(sorted, m) ==
            LET k == Cardinality({i \in 1..Len(sorted) : sorted[i].change >= m.change})
            IN  SubSeq(sorted, 1, k) \o <<m>> \o SubSeq(sorted, k + 1, Len(sorted))
        run[n \in 0..Len(movers)] ==
            IF n = 0 THEN <<>> ELSE Insert(run[n - 1], movers[n])
    IN  run[Len(movers)]

\* the loop inside one try: the first download that raises ends it
get_top_movers_one_try(quotes) ==
    LET Listed(i) == /\ quotes[i].kind = "frame"
                     /\ \A j \in 1..i : quotes[j].kind # "error"
        indices == SelectSeq([i \in 1..Len(STOCK_SYMBOLS) |-> i], Listed)
        movers == [k \in 1..Len(indices) |->
                     [symbol |-> STOCK_SYMBOLS[indices[k]],
                      change |-> PercentChange(quotes[indices[k]].Open,
                                               quotes[indices[k]].Close)]]
    IN  Sorted(movers)

\* "for symbol in STOCK_SYMBOLS: try: ... except Exception": a download that
\* raises and a frame of fewer than two rows append nothing, the loop goes on
get_top_movers(quotes) ==
    LET Listed(i) == quotes[i].kind = "frame"
        indices == SelectSeq([i \in 1..Len(STOCK_SYMBOLS) |-> i], Listed)
        movers == [k \in 1..Len(indices) |->
                     [symbol |-> STOCK_SYMBOLS[indices[k]],
                      change |-> PercentChange(quotes[indices[k]].Open,
                                               quotes[indices[k]].Close)]]
    IN  Sorted(movers)

\* list[:k] and list[-k:]
HeadSlice(list, k) ==
    SubSeq(list, 1, IF Len(list) < k THEN Len(list) ELSE k)

TailSlice(list, k) ==
    SubSeq(list, IF Len(list) < k THEN 1 ELSE Len(list) - k + 1, Len(list))

\* the two rankings of the daily report ("if top_gainers:", else neither)
Rankings(top_gainers) ==
    [movers |-> top_gainers,
     top |-> IF top_gainers = <<>> THEN <<>> ELSE HeadSlice(top_gainers, 5),
     bottom |-> IF top_gainers = <<>> THEN <<>> ELSE TailSlice(top_gainers, 5)]

\* the rankings of a day without data and of any day
QuietRankings == {Rankings(get_top_movers(q)) : q \in QuietQuotes}
AllRankings == {Rankings(get_top_movers(q)) : q \in AllQuotes}

\* every call of get_top_movers: the downloads and the list returned
MoverRuns == {[quotes |-> q, movers |-> get_top_movers(q)] : q \in AllQuotes}

\* ------------------------------------------------------------------------
\* The profit sum of the weekly report (src/bot.py:521-531)
\* ------------------------------------------------------------------------
\* timedelta(days=7), in hours
Window == 168

\* the query: Opportunity.created_at >= now - 7 days
InWindow(table, at) ==
    LET Recent(o) == o.created_at >= at - Window
    IN  SelectSeq(table, Recent)

\* history(period='1d') without rows: .iloc[-1] raises
NoQuote == 0

\* sum((close - opp.entry_price) / opp.entry_price * 100 for opp in
\* opportunities); closes[symbol] is the latest Close of the symbol
total_profit(rows, closes) ==
    LET sum[k \in 0..Len(rows)] ==
            IF k = 0 THEN [n |-> 0, d |-> 1]
            ELSE LET rest == sum[k - 1]
                 IN  RatAdd(rest,
                            SignedRat((closes[rows[k].symbol] - rows[k].entry_price) * 100,
                                      rows[k].entry_price))
    IN  sum[Len(rows)]

\* ------------------------------------------------------------------------
\* The body of the for loop of check_opportunities (src/bot.py:351-363)
\* ------------------------------------------------------------------------
\* outcomes of yf.download: an exception, an empty frame, or a frame
Downloads ==
    {[ok |-> FALSE, data |-> <<>>], [ok |-> TRUE, data |-> <<>>]}
    \cup {[ok |-> TRUE, data |-> d] : d \in Snapshots}

\* the four "if self.detect_x(data): await self.create_opportunity(...)":
\* the strategies that fired, until a detector raises
RunDetectors(data) ==
    LET run[k \in 1..(Len(Strategies) + 1)] ==
            IF k > Len(Strategies)
            THEN [raised |-> FALSE, evaluated |-> 0, fired |-> <<>>]
            ELSE LET r == Detect(Strategies[k], data)
                     rest == run[k + 1]
                 IN  IF r = "raise"
                     THEN [raised |-> TRUE, evaluated |-> 1, fired |-> <<>>]
                     ELSE [raised |-> rest.raised,
                           evaluated |-> rest.evaluated + 1,
                           fired |-> (IF r = "T" THEN <<Strategies[k]>> ELSE <<>>)
                                       \o rest.fired]
    IN  run[1]

\* the iteration without "if data.empty: continue"
LoopBodyNoEmptyCheck(symbol, dl) ==
    IF ~ dl.ok
    THEN [symbol |-> symbol, data |-> "error", price |-> 0, outcome |-> "raised",
          evaluated |-> 0, created |-> <<>>]
    ELSE LET run == RunDetectors(dl.data)
         IN  [symbol |-> symbol,
              data |-> IF dl.data = <<>> THEN "empty" ELSE "frame",
              price |-> IF dl.data = <<>> THEN 0 ELSE dl.data[Len(dl.data)].Close,
              outcome |-> IF run.raised THEN "raised" ELSE "evaluated",
              evaluated |-> run.evaluated,
              created |-> [k \in 1..Len(run.fired) |->
                              NewOpportunity(symbol, run.fired[k], dl.data)]]

\* one iteration for one symbol: what was downloaded ("error", "empty" or
\* "frame"), how the iteration ended, and the rows its create_opportunity
\* calls commit
LoopBody(symbol, dl) ==
    IF ~ dl.ok
    THEN [symbol |-> symbol, data |-> "error", price |-> 0, outcome |-> "raised",
          evaluated |-> 0, created |-> <<>>]
    ELSE IF dl.data = <<>>
    THEN [symbol |-> symbol, data |-> "empty", price |-> 0, outcome |-> "skipped",
          evaluated |-> 0, created |-> <<>>]
    ELSE LET run == RunDetectors(dl.data)
         IN  [symbol |-> symbol, data |-> "frame",
              price |-> dl.data[Len(dl.data)].Close,
              outcome |-> IF run.raised THEN "raised" ELSE "evaluated",
              evaluated |-> run.evaluated,
              created |-> [k \in 1..Len(run.fired) |->
                              NewOpportunity(symbol, run.fired[k], dl.data)]]

\* the iterations the market data can produce
SweepCases ==
    {LoopBody(STOCK_SYMBOLS[i], dl) : i \in 1..Len(STOCK_SYMBOLS), dl \in Downloads}

\* ------------------------------------------------------------------------
\* The scheduler's jobs (src/bot.py:113-117) and the query limit
\* ------------------------------------------------------------------------
JobNames ==
    {"check_opportunities", "send_daily_report", "send_weekly_report",
     "reset_daily_queries", "check_penalties"}

\* add_job is called without max_instances: the scheduler's default
max_instances == 1

\* a scheduler that starts a run whatever is running
AdmitsAlways(instances) == TRUE

\* the scheduler starts a run of a job only below max_instances running ones
Admits(instances) == instances < max_instances

\* a job body without its except clause
JobResultNoExcept(raises) == IF raises THEN "escaped" ELSE "done"

\* "try: ... except Exception as e: logging.error(...) finally:
\* session.close()" around the body of every job: how a run ends
JobResult(raises) == IF raises THEN "caught" ELSE "done"

\* settings['security']['max_queries']
max_queries == 5

\* ------------------------------------------------------------------------
\* State
\* ------------------------------------------------------------------------
VARIABLES
    groups,             \* table groups, rows in insertion order
    ACTIVATED_GROUPS,   \* the module-level list
    opportunities,      \* table opportunities, rows in insertion order
    sweep,              \* the current or latest run of check_opportunities
    last,               \* what the latest handler step did
    snapshot,           \* frame handed to a detector evaluated on its own
    detection,          \* result of that evaluation
    now,                \* the clock, in hours since start-up
    jobs,               \* per job: the runs in progress
    users,              \* table users: daily_queries of each user
    analysis,           \* the handle_stock_analysis call in progress
    served              \* analyses answered per user since the latest reset

vars == <<groups, ACTIVATED_GROUPS, opportunities, sweep, last, snapshot, detection,
          now, jobs, users, analysis, served>>

detectorVars == <<snapshot, detection>>
schedulerVars == <<now, jobs>>
userVars == <<users, analysis, served>>

\* chats the owner may name in /approve: the pending group and a new one
ApproveChats == {"-1002", "-1004"}

NoProfit == [n |-> 0, d |-> 1]

NoStep ==
    [op |-> "none", symbol |-> "", data |-> "", price |-> 0, outcome |-> "",
     evaluated |-> 0, created |-> 0, broadcasts |-> {},
     lost |-> NoStrategy, chat_id |-> "",
     movers |-> <<>>, top |-> <<>>, bottom |-> <<>>,
     summed |-> {}, total_profit |-> NoProfit, quotes |-> <<>>]

NoDetection == [strategy |-> "", result |-> ""]

NoAnalysis == [pc |-> "idle", user |-> "", loaded |-> 0]

\* rows found in the database at start-up: an approved group, a group that is
\* not approved, and an approved group with capabilities switched off
InitGroups ==
    <<Group("-1001", TRUE,
            [DefaultSettings EXCEPT !.reports.weekly = FALSE]),
      Group("-1002", FALSE, DefaultSettings),
      Group("-1003", TRUE,
            [DefaultSettings EXCEPT !.reports.daily = FALSE,
                                    !.strategies.golden = FALSE,
                                    !.strategies.lightning = FALSE])>>

\* the state after SaudiStockBot() on a database whose table groups holds table
InitWith(table) ==
    /\ groups = table
    /\ ACTIVATED_GROUPS = <<"">>
    /\ opportunities = <<>>
    /\ sweep = [running |-> FALSE, fetched |-> 0, aborted |-> FALSE]
    /\ last = NoStep
    /\ now = 0
    /\ jobs = [job \in JobNames |-> 0]
    /\ users = [u \in UserIds |-> 0]
    /\ analysis = NoAnalysis
    /\ served = [u \in UserIds |-> 0]

InitDb == InitWith(InitGroups)

Init ==
    /\ InitDb
    /\ snapshot = <<>>
    /\ detection = NoDetection

\* the send that raises in one step, if any
Failures == {NoChat} \cup ChatIds(SelectSeq(groups, LAMBDA g : g.is_approved))

\* ------------------------------------------------------------------------
\* check_opportunities (src/bot.py:348-367)
\* ------------------------------------------------------------------------
\* the scheduler fires the interval job; one instance at a time
SweepStart ==
    /\ Admits(IF sweep.running THEN 1 ELSE 0)
    /\ sweep' = [running |-> TRUE, fetched |-> 0, aborted |-> FALSE]
    /\ last' = [NoStep EXCEPT !.op = "sweep_start"]
    /\ UNCHANGED <<groups, ACTIVATED_GROUPS, opportunities, detectorVars,
                   schedulerVars, userVars>>

\* one iteration of "for symbol in STOCK_SYMBOLS"; an exception leaves the
\* loop through the except of check_opportunities and ends the run, an
\* exception of a commit ends only its create_opportunity.  lossy: a commit
\* of the iteration may raise
SweepIteration(lossy) ==
    /\ sweep.running
    /\ LET i == sweep.fetched + 1
       IN  \E r \in {c \in SweepCases : c.symbol = STOCK_SYMBOLS[i]} :
           \E lost \in {NoStrategy} \cup
                        (IF lossy THEN {r.created[k].strategy : k \in 1..Len(r.created)}
                         ELSE {}) :
             LET committed == Committed(r.created, lost, now)
                 alerted == Alerted(r.created, lost)
             IN  /\ Len(opportunities) + Len(committed) <= MaxOpps
                 /\ \E failing \in (IF alerted = <<>> THEN {NoChat} ELSE Failures) :
                      /\ opportunities' = opportunities \o committed
                      /\ last' = [NoStep EXCEPT
                                    !.op = "sweep", !.symbol = r.symbol, !.data = r.data,
                                    !.price = r.price, !.outcome = r.outcome,
                                    !.evaluated = r.evaluated,
                                    !.created = Len(committed), !.lost = lost,
                                    !.broadcasts =
                                       {Broadcast("alert", alerted[k].strategy,
                                                  AlertRecipients(groups, alerted[k].strategy),
                                                  failing) : k \in 1..Len(alerted)}]
                      /\ sweep' = [running |-> r.outcome # "raised" /\ i < Len(STOCK_SYMBOLS),
                                   fetched |-> i,
                                   aborted |-> r.outcome = "raised"]
    /\ UNCHANGED <<groups, ACTIVATED_GROUPS, detectorVars, schedulerVars, userVars>>

\* an iteration while the database takes every commit
SweepStep == SweepIteration(FALSE)

\* an iteration while a commit may raise
SweepStepAnyCommit == SweepIteration(TRUE)

\* ------------------------------------------------------------------------
\* Reports (src/bot.py:490-549)
\* ------------------------------------------------------------------------
\* rankings: what get_top_movers and the two slices can give on the day
DailyReport(rankings) ==
    /\ \E failing \in Failures, report \in rankings :
         last' = [NoStep EXCEPT
                    !.op = "daily",
                    !.movers = report.movers,
                    !.top = report.top,
                    !.bottom = report.bottom,
                    !.broadcasts =
                       {Broadcast("daily", "", DailyRecipients(groups), failing)}]
    /\ UNCHANGED <<groups, ACTIVATED_GROUPS, opportunities, sweep, detectorVars,
                   schedulerVars, userVars>>

\* the report on a day without data
SendDailyReport == DailyReport(QuietRankings)

\* the report on any day
SendDailyReportAnyDay == DailyReport(AllRankings)

\* quotes: the values the latest Close of yf.Ticker(symbol).history can have
\* for the symbols of the rows of the week; a history without rows raises
\* and ends the report in its except before any send
WeeklyReport(quotes) ==
    /\ LET rows == InWindow(opportunities, now)
           symbols == {rows[k].symbol : k \in 1..Len(rows)}
           recipients == WeeklyRecipients(groups)
       IN  \E close \in quotes :
             LET closes == [symbol \in symbols |-> close]
             IN  IF \E symbol \in symbols : closes[symbol] = NoQuote
                 THEN last' = [NoStep EXCEPT !.op = "weekly", !.outcome = "raised"]
                 ELSE LET sent == [NoStep EXCEPT
                                     !.op = "weekly", !.outcome = "sent",
                                     !.summed = {rows[k].status : k \in 1..Len(rows)},
                                     !.total_profit = total_profit(rows, closes)]
                      IN  \E failing \in Failures :
                            last' = [sent EXCEPT
                                       !.broadcasts =
                                          {Broadcast("weekly", "", recipients, failing)}]
    /\ UNCHANGED <<groups, ACTIVATED_GROUPS, opportunities, sweep, detectorVars,
                   schedulerVars, userVars>>

\* the report in a week that ends at the lowest price, if a price is known
SendWeeklyReport == WeeklyReport({SetMin(PriceLevels), NoQuote})

\* the report in any week
SendWeeklyReportAnyWeek == WeeklyReport(PriceLevels \cup {NoQuote})

\* ------------------------------------------------------------------------
\* approve_group (src/bot.py:564-593)
\* ------------------------------------------------------------------------
InSeq(x, s) == \E i \in 1..Len(s) : s[i] = x

\* an approval that commits the new row before it sets is_approved
ApprovedFlagAfterCommit(table, chat_id) ==
    IF \E i \in 1..Len(table) : table[i].chat_id = chat_id
    THEN [i \in 1..Len(table) |->
            IF table[i].chat_id = chat_id
            THEN [table[i] EXCEPT !.is_approved = TRUE] ELSE table[i]]
    ELSE Append(table, Group(chat_id, FALSE, DefaultSettings))

\* an approval that inserts a row whatever the table holds
ApprovedAlwaysInserts(table, chat_id) ==
    Append(table, Group(chat_id, TRUE, DefaultSettings))

Approved(table, chat_id) ==
    IF \E i \in 1..Len(table) : table[i].chat_id = chat_id
    THEN [i \in 1..Len(table) |->
            IF table[i].chat_id = chat_id
            THEN [table[i] EXCEPT !.is_approved = TRUE] ELSE table[i]]
    ELSE Append(table, Group(chat_id, TRUE, DefaultSettings))

\* outcome: "denied" for another user than the owner, else whether the chat
\* was appended to ACTIVATED_GROUPS ("activated") or was in it ("listed")
ApproveGroup ==
    /\ \E isOwner \in BOOLEAN, chat_id \in ApproveChats :
         IF isOwner
         THEN /\ groups' = Approved(groups, chat_id)
              /\ ACTIVATED_GROUPS' = IF InSeq(chat_id, ACTIVATED_GROUPS)
                                     THEN ACTIVATED_GROUPS
                                     ELSE Append(ACTIVATED_GROUPS, chat_id)
              /\ last' = [NoStep EXCEPT
                            !.op = "approve", !.chat_id = chat_id,
                            !.outcome = IF InSeq(chat_id, ACTIVATED_GROUPS)
                                        THEN "listed" ELSE "activated"]
         ELSE /\ UNCHANGED <<groups, ACTIVATED_GROUPS>>
              /\ last' = [NoStep EXCEPT !.op = "approve", !.chat_id = chat_id,
                                        !.outcome = "denied"]
    /\ UNCHANGED <<opportunities, sweep, detectorVars, schedulerVars, userVars>>

Next ==
    \/ SweepStart
    \/ SweepStep
    \/ SendDailyReport
    \/ SendWeeklyReport
    \/ ApproveGroup

Spec == Init /\ [][Next]_vars

\* the interval trigger keeps firing check_opportunities and a started run
\* goes on to its end
FairSpec == Spec /\ WF_vars(SweepStart) /\ WF_vars(SweepStep)

\* ------------------------------------------------------------------------
\* The handlers on a new database: Base.metadata.create_all (src/bot.py:85)
\* has made the tables and no row is in them
\* ------------------------------------------------------------------------
InitFresh ==
    /\ InitWith(<<>>)
    /\ snapshot = <<>>
    /\ detection = NoDetection

SpecFresh == InitFresh /\ [][Next]_vars

\* ------------------------------------------------------------------------
\* A detector evaluated on its own on one frame
\* ------------------------------------------------------------------------
InitDetect ==
    /\ InitDb
    /\ snapshot \in Snapshots \cup {<<>>}
    /\ detection = NoDetection

Evaluate ==
    /\ \E strategy \in StrategySet :
         detection' = [strategy |-> strategy, result |-> Detect(strategy, snapshot)]
    /\ UNCHANGED <<groups, ACTIVATED_GROUPS, opportunities, sweep, last, snapshot,
                   schedulerVars, userVars>>

NextDetect == Evaluate

SpecDetect == InitDetect /\ [][NextDetect]_vars

\* ------------------------------------------------------------------------
\* The daily report on any market day
\* ------------------------------------------------------------------------
NextMovers == SendDailyReportAnyDay

SpecMovers == Init /\ [][NextMovers]_vars

\* one call of get_top_movers (src/bot.py:551-562) on any downloads
GetTopMovers ==
    /\ \E run \in MoverRuns :
         last' = [NoStep EXCEPT
                    !.op = "movers", !.quotes = run.quotes, !.movers = run.movers]
    /\ UNCHANGED <<groups, ACTIVATED_GROUPS, opportunities, sweep, detectorVars,
                   schedulerVars, userVars>>

NextRanking == GetTopMovers

SpecRanking == Init /\ [][NextRanking]_vars

\* ------------------------------------------------------------------------
\* The sweeps and the weekly report while time passes
\* ------------------------------------------------------------------------
\* a later instant; the latest bar of a frame is the bar of the hour now
Tick ==
    /\ \E t \in Times : t > now /\ now' = t
    /\ last' = [NoStep EXCEPT !.op = "tick"]
    /\ UNCHANGED <<groups, ACTIVATED_GROUPS, opportunities, sweep, detectorVars,
                   jobs, userVars>>

NextTimed ==
    \/ SweepStart
    \/ SweepStepAnyCommit
    \/ SendWeeklyReportAnyWeek
    \/ Tick

SpecTimed == Init /\ [][NextTimed]_vars

\* ------------------------------------------------------------------------
\* The sweeps while a commit may raise
\* ------------------------------------------------------------------------
NextCommit ==
    \/ SweepStart
    \/ SweepStepAnyCommit

SpecCommit == Init /\ [][NextCommit]_vars

\* ------------------------------------------------------------------------
\* create_opportunity on its own, for low entry prices
\* ------------------------------------------------------------------------
PricedBar(price) == [Close |-> price, High |-> price, Low |-> price, Volume |-> 1]

EntryFrames == {<<PricedBar(price), PricedBar(price)>> : price \in 1..MaxEntry}

InitCreate ==
    /\ InitDb
    /\ snapshot \in EntryFrames
    /\ detection = NoDetection

\* one call create_opportunity(symbol, strategy, data) on the empty table
CreateOpportunity ==
    /\ opportunities = <<>>
    /\ \E i \in 1..Len(STOCK_SYMBOLS), strategy \in StrategySet, failing \in Failures :
       \E lost \in {NoStrategy, strategy} :
         LET created == <<NewOpportunity(STOCK_SYMBOLS[i], strategy, snapshot)>>
             alerted == Alerted(created, lost)
         IN  /\ opportunities' = Committed(created, lost, now)
             /\ last' = [NoStep EXCEPT
                           !.op = "create", !.symbol = STOCK_SYMBOLS[i],
                           !.data = "frame", !.price = snapshot[Len(snapshot)].Close,
                           !.created = Len(Committed(created, lost, now)),
                           !.lost = lost,
                           !.broadcasts =
                              {Broadcast("alert", alerted[k].strategy,
                                         AlertRecipients(groups, alerted[k].strategy),
                                         failing) : k \in 1..Len(alerted)}]
    /\ UNCHANGED <<groups, ACTIVATED_GROUPS, sweep, detectorVars, schedulerVars, userVars>>

NextCreate == CreateOpportunity

SpecCreate == InitCreate /\ [][NextCreate]_vars

\* ------------------------------------------------------------------------
\* One iteration of check_opportunities on frames whose price swings
\* ------------------------------------------------------------------------
\* closes in halalas.  Two of them differ by (FastSpan + 1) * (SlowSpan + 1),
\* which keeps both averages whole after the second bar
SwingLevels == {19749, 30000, 35000, 39700}

\* frames of four bars: the shortest on which the averages can cross upwards
\* at a bar that closes below the bar before it
SwingFrames ==
    {<<PricedBar(a), PricedBar(b), PricedBar(c), PricedBar(d)>> :
        a \in {19749, 30000}, b \in {19749, 30000},
        c \in SwingLevels, d \in SwingLevels}

InitSwing ==
    /\ InitDb
    /\ snapshot \in SwingFrames
    /\ detection = NoDetection

\* the body of the for loop for one symbol whose download is the frame, on
\* the empty table: the detectors decide which rows are created
CheckFrame ==
    /\ opportunities = <<>>
    /\ \E i \in 1..Len(STOCK_SYMBOLS) :
         LET r == LoopBody(STOCK_SYMBOLS[i], [ok |-> TRUE, data |-> snapshot])
             committed == Committed(r.created, NoStrategy, now)
             alerted == Alerted(r.created, NoStrategy)
         IN  /\ committed # <<>>
             /\ opportunities' = committed
             /\ last' = [NoStep EXCEPT
                           !.op = "sweep", !.symbol = r.symbol, !.data = r.data,
                           !.price = r.price, !.outcome = r.outcome,
                           !.evaluated = r.evaluated,
                           !.created = Len(committed),
                           !.broadcasts =
                              {Broadcast("alert", alerted[k].strategy,
                                         AlertRecipients(groups, alerted[k].strategy),
                                         NoChat) : k \in 1..Len(alerted)}]
    /\ UNCHANGED <<groups, ACTIVATED_GROUPS, sweep, detectorVars, schedulerVars, userVars>>

NextSwing == CheckFrame

SpecSwing == InitSwing /\ [][NextSwing]_vars

\* ------------------------------------------------------------------------
\* The scheduler and the runs of its jobs (src/bot.py:113-117)
\* ------------------------------------------------------------------------
\* the trigger of a job fires and the scheduler starts a run
JobStart ==
    /\ \E job \in JobNames :
         /\ Admits(jobs[job])
         /\ jobs[job] < MaxRunning
         /\ jobs' = [jobs EXCEPT ![job] = @ + 1]
         /\ last' = [NoStep EXCEPT !.op = "job_start", !.symbol = job]
    /\ UNCHANGED <<groups, ACTIVATED_GROUPS, opportunities, sweep, detectorVars,
                   now, userVars>>

\* the trigger fires while the run before is suspended at an await: the
\* scheduler skips this run
JobSkip ==
    /\ \E job \in JobNames :
         /\ ~ Admits(jobs[job])
         /\ jobs' = jobs
         /\ last' = [NoStep EXCEPT !.op = "job_skip", !.symbol = job]
    /\ UNCHANGED <<groups, ACTIVATED_GROUPS, opportunities, sweep, detectorVars,
                   now, userVars>>

\* a run comes to its end, with or without an exception in its body
JobEnd ==
    /\ \E job \in JobNames, raises \in BOOLEAN :
         /\ jobs[job] > 0
         /\ jobs' = [jobs EXCEPT ![job] = @ - 1]
         /\ last' = [NoStep EXCEPT !.op = "job_end", !.symbol = job,
                                   !.outcome = JobResult(raises)]
    /\ UNCHANGED <<groups, ACTIVATED_GROUPS, opportunities, sweep, detectorVars,
                   now, userVars>>

NextJobs ==
    \/ JobStart
    \/ JobSkip
    \/ JobEnd

SpecJobs == Init /\ [][NextJobs]_vars

\* ------------------------------------------------------------------------
\* handle_stock_analysis and reset_daily_queries
\* (src/bot.py:281-313, 462-470)
\* ------------------------------------------------------------------------
\* a user sends a stock code: the handler loads the user's row, checks the
\* limit and awaits the reply with the analysis
AnalysisStart ==
    /\ analysis.pc = "idle"
    /\ \E u \in UserIds :
         IF users[u] >= max_queries
         THEN /\ analysis' = analysis
              /\ last' = [NoStep EXCEPT !.op = "analysis", !.outcome = "refused"]
         ELSE /\ analysis' = [pc |-> "reply", user |-> u, loaded |-> users[u]]
              /\ last' = [NoStep EXCEPT !.op = "analysis", !.outcome = "awaiting"]
    /\ UNCHANGED <<groups, ACTIVATED_GROUPS, opportunities, sweep, detectorVars,
                   schedulerVars, users, served>>

\* the awaited reply returns: "user.daily_queries += 1" on the loaded row,
\* then the commit; a reply that raises ends the handler in its except
AnalysisResume ==
    /\ analysis.pc = "reply"
    /\ \E replied \in BOOLEAN :
         IF replied
         THEN /\ users' = [users EXCEPT ![analysis.user] = analysis.loaded + 1]
              /\ served' = [served EXCEPT ![analysis.user] = @ + 1]
              /\ last' = [NoStep EXCEPT !.op = "analysis", !.outcome = "served"]
         ELSE /\ UNCHANGED <<users, served>>
              /\ last' = [NoStep EXCEPT !.op = "analysis", !.outcome = "raised"]
    /\ analysis' = NoAnalysis
    /\ UNCHANGED <<groups, ACTIVATED_GROUPS, opportunities, sweep, detectorVars,
                   schedulerVars>>

\* the midnight job: UPDATE users SET daily_queries = 0, commit
ResetDailyQueries ==
    /\ users' = [u \in UserIds |-> 0]
    /\ served' = [u \in UserIds |-> 0]
    /\ last' = [NoStep EXCEPT !.op = "reset"]
    /\ UNCHANGED <<groups, ACTIVATED_GROUPS, opportunities, sweep, detectorVars,
                   schedulerVars, analysis>>

NextQueries ==
    \/ AnalysisStart
    \/ AnalysisResume
    \/ ResetDailyQueries

SpecQueries == Init /\ [][NextQueries]_vars

\* ------------------------------------------------------------------------
\* Properties
\* ------------------------------------------------------------------------
OppIds == 1..Len(opportunities)

SamePair(a, b) == a.symbol = b.symbol /\ a.strategy = b.strategy

\* C1: at most one Opportunity with status 'active' exists for any
\* (symbol, strategy) pair; a second creation for the pair is rejected.
C1_OneActivePerPair ==
    \A i, j \in OppIds :
        (/\ i # j
         /\ opportunities[i].status = "active"
         /\ opportunities[j].status = "active")
        => ~ SamePair(opportunities[i], opportunities[j])

GroupOf(chat_id) == CHOOSE g \in {groups[i] : i \in 1..Len(groups)} : g.chat_id = chat_id

\* the settings flag a broadcast of this kind is gated on
Capability(settings, b) ==
    CASE b.kind = "alert" -> settings.strategies[b.strategy]
      [] b.kind = "daily" -> settings.reports.daily
      [] b.kind = "weekly" -> settings.reports.weekly

\* C2: a group whose is_approved is false receives no alert, no daily report
\* and no weekly report, whatever its settings are.
C2_UnapprovedReceiveNothing ==
    \A b \in last.broadcasts :
        \A chat_id \in b.delivered :
            /\ chat_id \in ChatIds(groups)
            /\ GroupOf(chat_id).is_approved

\* a broadcast reached somebody while a group that is not approved had the
\* capability switched on
C2_Witness ==
    \E b \in last.broadcasts :
        /\ b.delivered # {}
        /\ \E i \in 1..Len(groups) :
              /\ ~ groups[i].is_approved
              /\ Capability(groups[i].settings, b)
              /\ groups[i].chat_id \notin b.delivered

\* C3: in a broadcast every eligible group whose own send succeeds receives
\* the message, wherever the group whose send fails stands in the iteration.
C3_FailureDoesNotStopOthers ==
    \A b \in last.broadcasts :
        (b.recipients \ {b.failing}) \subseteq b.delivered

\* C4: a notification is delivered to a group only if the capability flag of
\* its kind (strategies[s], reports.daily, reports.weekly) is enabled there.
C4_OnlyEnabledCapability ==
    \A b \in last.broadcasts :
        \A chat_id \in b.delivered :
            /\ chat_id \in ChatIds(groups)
            /\ Capability(GroupOf(chat_id).settings, b)

\* a broadcast reached somebody while an approved group had the capability
\* switched off
C4_Witness ==
    \E b \in last.broadcasts :
        /\ b.delivered # {}
        /\ \E i \in 1..Len(groups) :
              /\ groups[i].is_approved
              /\ ~ Capability(groups[i].settings, b)
              /\ groups[i].chat_id \notin b.delivered

IndexInRange ==
    \A i \in OppIds :
        /\ 0 <= opportunities[i].current_target
        /\ opportunities[i].current_target <= Len(opportunities[i].targets)

IndexNeverDecreases ==
    \A i \in OppIds :
        /\ i \in 1..Len(opportunities')
        /\ opportunities'[i].current_target >= opportunities[i].current_target

\* C5: for every Opportunity, current_target never decreases and always
\* satisfies 0 <= current_target <= len(targets).
C5_TargetIndexMonotoneBounded ==
    [] IndexInRange /\ [][IndexNeverDecreases]_vars

\* rows exist and later handlers have run over them
C5_Witness ==
    /\ Len(opportunities) >= 2
    /\ last.op \in {"weekly", "daily", "sweep"}
    /\ sweep.fetched = Len(STOCK_SYMBOLS)

\* the step fetched a price for the symbol of row i that is at or above the
\* row's current target while the row is active
TargetHit(i) ==
    /\ last'.op = "sweep"
    /\ last'.data = "frame"
    /\ last'.symbol = opportunities[i].symbol
    /\ opportunities[i].status = "active"
    /\ opportunities[i].current_target < Len(opportunities[i].targets)
    /\ last'.price >= opportunities[i].targets[opportunities[i].current_target + 1]

\* C6: a tick that finds the price of an active Opportunity at or above
\* targets[current_target] advances the target index (and does not stop the
\* Opportunity).
C6_TargetHitAdvances ==
    [][\A i \in OppIds :
          TargetHit(i) =>
              /\ opportunities'[i].current_target = opportunities[i].current_target + 1
              /\ opportunities'[i].status # "stopped"]_vars

FinalTarget(o) == o.targets[Len(o.targets)]

\* the latest fetch of the symbol of row i
AtFinalTarget(i) ==
    /\ i \in OppIds
    /\ opportunities[i].status = "active"
    /\ last.op = "sweep"
    /\ last.data = "frame"
    /\ last.symbol = opportunities[i].symbol
    /\ last.price >= FinalTarget(opportunities[i])

BelowFinalTarget(i) ==
    /\ i \in OppIds
    /\ last.op = "sweep"
    /\ last.symbol = opportunities[i].symbol
    /\ ~ (last.data = "frame" /\ last.price >= FinalTarget(opportunities[i]))

CompletedWithSuccessor(i) ==
    /\ i \in OppIds
    /\ opportunities[i].status = "completed"
    /\ Cardinality({j \in OppIds :
          /\ j > i
          /\ SamePair(opportunities[j], opportunities[i])
          /\ opportunities[j].entry_price = FinalTarget(opportunities[i])}) = 1
    /\ \A j \in OppIds :
          (/\ j > i
           /\ SamePair(opportunities[j], opportunities[i])
           /\ opportunities[j].entry_price = FinalTarget(opportunities[i]))
          => /\ opportunities[j].status = "active"
             /\ opportunities[j].current_target = 0

\* C7: an active Opportunity whose price has reached its final target becomes
\* 'completed' with exactly one active successor at index 0 whose entry price
\* is that target, unless a later fetch finds the price below the target.
C7_FinalTargetCompletes ==
    \A i \in 1..MaxOpps :
        AtFinalTarget(i) ~> (CompletedWithSuccessor(i) \/ BelowFinalTarget(i))

\* C8: a failure on one symbol does not abort the sweep: a run that met a
\* failure has still fetched every symbol of STOCK_SYMBOLS when it ends.
C8_SweepSurvivesFailure ==
    (~ sweep.running /\ sweep.aborted) => sweep.fetched = Len(STOCK_SYMBOLS)

\* C9: when the download returns zero bars the symbol is skipped (no detector
\* evaluated, no Opportunity created, no error) and the sweep goes on.
C9_EmptyFrameSkipped ==
    (last.op = "sweep" /\ last.data = "empty") =>
        /\ last.outcome = "skipped"
        /\ last.evaluated = 0
        /\ last.created = 0
        /\ ~ sweep.aborted
        /\ sweep.running \/ sweep.fetched = Len(STOCK_SYMBOLS)

\* an empty frame for a symbol that is not the last one, the run still going
C9_Witness ==
    /\ last.op = "sweep"
    /\ last.data = "empty"
    /\ sweep.running
    /\ sweep.fetched \in 1..(Len(STOCK_SYMBOLS) - 1)

\* rows a detector reads back from the end of the frame
Lookback(strategy) ==
    CASE strategy = "golden" -> 2
      [] strategy = "earthquake" -> RollWindow + 1
      [] strategy = "volcano" -> 1
      [] strategy = "lightning" -> 2

\* C10: on a non-empty frame with fewer bars than the detector's lookback
\* every detector returns 'no detection' and does not raise.
C10_ShortFrameNoDetection ==
    (/\ detection.strategy \in StrategySet
     /\ Len(snapshot) >= 1
     /\ Len(snapshot) < Lookback(detection.strategy))
    => detection.result = "F"

\* the symbols in lexical order: equal in length, they compare as their codes
LexicalKey ==
    ("1211.SR" :> 1211) @@ ("2222.SR" :> 2222) @@ ("3030.SR" :> 3030) @@ ("4200.SR" :> 4200)

Ranked(movers) ==
    \A i, j \in 1..Len(movers) :
        i < j =>
            \/ movers[i].change > movers[j].change
            \/ /\ movers[i].change = movers[j].change
               /\ LexicalKey[movers[i].symbol] < LexicalKey[movers[j].symbol]

FirstFive(list, part) ==
    /\ Len(part) = (IF Len(list) < 5 THEN Len(list) ELSE 5)
    /\ \A i \in 1..Len(part) : part[i] = list[i]

LastFive(list, part) ==
    /\ Len(part) = (IF Len(list) < 5 THEN Len(list) ELSE 5)
    /\ \A i \in 1..Len(part) : part[i] = list[Len(list) - Len(part) + i]

Elements(list) == {list[i] : i \in 1..Len(list)}

\* on a ranking of ten or more distinct entries the two slices share none
SlicesApart ==
    \A n \in 10..MaxListed :
        LET list == [i \in 1..n |-> i]
        IN  Elements(HeadSlice(list, 5)) \cap Elements(TailSlice(list, 5)) = {}

\* C11: the list of get_top_movers is sorted descending by percent change,
\* ties in symbol lexical order; 'top 5' is its first five entries and
\* 'bottom 5' its last five, and the two share no entry on ten or more.
C11_TopMoversRanked ==
    /\ SlicesApart
    /\ last.op = "daily" =>
          /\ Ranked(last.movers)
          /\ FirstFive(last.movers, last.top)
          /\ LastFive(last.movers, last.bottom)

\* all four symbols ranked, with a tie and with a strict step
C11_Witness ==
    /\ last.op = "daily"
    /\ Len(last.movers) = Len(STOCK_SYMBOLS)
    /\ \E i \in 1..(Len(last.movers) - 1) :
          last.movers[i].change = last.movers[i + 1].change
    /\ \E i \in 1..(Len(last.movers) - 1) :
          last.movers[i].change > last.movers[i + 1].change

Occurrences(x, s) == Cardinality({i \in 1..Len(s) : s[i] = x})

ApprovedOnce(chat_id) ==
    /\ Cardinality({i \in 1..Len(groups) : groups[i].chat_id = chat_id}) = 1
    /\ GroupOf(chat_id).is_approved
    /\ Occurrences(chat_id, ACTIVATED_GROUPS) <= 1

RepeatedApproveChangesNothing ==
    (last'.op = "approve" /\ last'.outcome = "listed") =>
        /\ groups' = groups
        /\ ACTIVATED_GROUPS' = ACTIVATED_GROUPS

\* C13: after any sequence of successful owner approve_group calls for a
\* chat_id there is exactly one Group row with it, approved, the chat_id is at
\* most once in ACTIVATED_GROUPS, and a repeated call changes nothing stored.
C13_ApproveIdempotent ==
    /\ [](\A chat_id \in ApproveChats :
            InSeq(chat_id, ACTIVATED_GROUPS) => ApprovedOnce(chat_id))
    /\ [][RepeatedApproveChangesNothing]_vars

\* the owner approved once more a chat that had no row before its approval
C13_Witness ==
    /\ last.op = "approve"
    /\ last.outcome = "listed"
    /\ last.chat_id = "-1004"

\* fast average strictly above the slow one at row t
FastAbove(close, t) == RatLess(Ewm(close, SlowSpan, t), Ewm(close, FastSpan, t))

CrossSemantics ==
    \A data \in Snapshots :
        Len(data) >= 2 =>
            LET close == Column(data, "Close")
            IN  (detect_golden_cross(data) = "T")
                <=> (FastAbove(close, Len(data)) /\ ~ FastAbove(close, Len(data) - 1))

\* no two 'golden' rows of one symbol come from the same latest bar
NoRetrigger ==
    \A i, j \in OppIds :
        (/\ i < j
         /\ opportunities[i].strategy = "golden"
         /\ opportunities[j].strategy = "golden"
         /\ opportunities[i].symbol = opportunities[j].symbol)
        => opportunities[i].created_at # opportunities[j].created_at

\* C14: detect_golden_cross triggers exactly when the fast average is
\* strictly above the slow one on the latest bar and at or below it on the
\* bar before, and a sweep that runs again while the same bar is the latest
\* one produces no second Opportunity.
C14_CrossOncePerBar == CrossSemantics /\ NoRetrigger

\* C15: for every Opportunity created by create_opportunity, whatever the
\* positive entry price and the strategy, the target list is strictly
\* increasing and every target is strictly above the entry price.
C15_TargetsIncreaseAboveEntry ==
    \A i \in OppIds :
        LET o == opportunities[i]
        IN  /\ \A k \in 1..(Len(o.targets) - 1) : o.targets[k] < o.targets[k + 1]
            /\ \A k \in 1..Len(o.targets) : o.targets[k] > o.entry_price

\* C16: no job overlaps with itself: at no time are two runs of one job in
\* progress, also when the trigger fires while a run is suspended; runs of
\* different jobs may be in progress together.
C16_NoSelfOverlap == \A job \in JobNames : jobs[job] <= 1

\* a trigger fired while its job was running and was skipped, two other jobs
\* being in progress together
C16_Witness ==
    /\ last.op = "job_skip"
    /\ jobs[last.symbol] = 1
    /\ \E job \in JobNames \ {last.symbol} : jobs[job] = 1

\* C17: an exception raised inside the body of a job is caught inside the
\* job: the run ends normally, and neither the next run of that job nor a run
\* of another job is prevented.
C17_JobExceptionContained ==
    last.op = "job_end" =>
        /\ last.outcome \in {"done", "caught"}
        /\ Admits(jobs[last.symbol])
        /\ \A job \in JobNames : jobs[job] = 0 => Admits(jobs[job])

\* a run ended on an exception while another job was in progress
C17_Witness ==
    /\ last.op = "job_end"
    /\ last.outcome = "caught"
    /\ \E job \in JobNames \ {last.symbol} : jobs[job] = 1

\* C18: the performance sum of send_weekly_report adds percent gain/loss only
\* over 'completed' or 'stopped' Opportunities created within the window;
\* 'active' Opportunities contribute nothing to it.
C18_OnlyClosedSummed ==
    (/\ last.op = "weekly"
     /\ last.outcome = "sent"
     /\ last.summed \cap {"completed", "stopped"} = {})
    => last.total_profit.n = 0

NewRows == {i \in OppIds : i > Len(opportunities) - last.created}

\* C19: in create_opportunity the alert is sent only after the row is
\* committed: a commit that fails sends no alert, its error stays in
\* create_opportunity, and the sweep goes on with the remaining detectors
\* and symbols.
C19_AlertOnlyAfterCommit ==
    last.op = "sweep" =>
        /\ \A b \in last.broadcasts :
              /\ b.strategy # last.lost
              /\ \E i \in NewRows :
                    /\ opportunities[i].symbol = last.symbol
                    /\ opportunities[i].strategy = b.strategy
        /\ last.lost # NoStrategy =>
              /\ last.outcome = "evaluated"
              /\ last.evaluated = Len(Strategies)
              /\ ~ sweep.aborted
              /\ sweep.running \/ sweep.fetched = Len(STOCK_SYMBOLS)

\* a commit failed, a later detector of the same symbol still got its row and
\* its alert, and the run goes on
C19_Witness ==
    /\ last.op = "sweep"
    /\ last.lost = "golden"
    /\ last.created >= 1
    /\ last.broadcasts # {}
    /\ sweep.running

\* C20: the midnight reset is never lost: every user's stored daily_queries
\* counts only analyses served since the latest reset, also when the reset
\* runs while a handle_stock_analysis call is suspended at its reply.
C20_ResetNeverLost == \A u \in UserIds : users[u] <= served[u]

\* C21: every Opportunity created by create_opportunity, for each of the four
\* strategies and any snapshot with positive prices, has its stop_loss
\* strictly below its entry_price, and so below its first target.
C21_StopBelowEntry ==
    \A i \in OppIds :
        LET o == opportunities[i]
        IN  o.entry_price > 0 =>
              /\ o.stop_loss.n < o.entry_price * o.stop_loss.d
              /\ o.targets # <<>> => o.stop_loss.n < o.targets[1] * o.stop_loss.d

TimesListed(symbol, movers) ==
    Cardinality({k \in 1..Len(movers) : movers[k].symbol = symbol})

\* C22: in get_top_movers a download that raises, or a result of fewer than
\* two bars, excludes only its own symbol: every symbol with two bars or more
\* is in the returned list exactly once, every other symbol is not in it.
C22_FailureExcludesOnlyItsSymbol ==
    last.op = "movers" =>
        \A i \in 1..Len(STOCK_SYMBOLS) :
            TimesListed(STOCK_SYMBOLS[i], last.movers) =
                (IF last.quotes[i].kind = "frame" THEN 1 ELSE 0)

\* a download raised and another was short, and symbols after them are listed
C22_Witness ==
    /\ last.op = "movers"
    /\ last.quotes[1].kind = "error"
    /\ last.quotes[2].kind = "short"
    /\ last.quotes[3].kind = "frame"
    /\ last.quotes[4].kind = "frame"
    /\ TimesListed(STOCK_SYMBOLS[3], last.movers) = 1
    /\ TimesListed(STOCK_SYMBOLS[4], last.movers) = 1
    /\ Len(last.movers) = 2

EveryGroupApproved == \A i \in 1..Len(groups) : groups[i].is_approved

\* no step removes a row of groups or takes the approval of a row back
GroupsKept ==
    \A i \in 1..Len(groups) :
        \E j \in 1..Len(groups') :
            /\ groups'[j].chat_id = groups[i].chat_id
            /\ groups[i].is_approved => groups'[j].is_approved

\* C23: every persisted Group row has is_approved = TRUE: approve_group, the
\* only operation that creates a row, sets is_approved before its one commit,
\* and no operation sets is_approved back to FALSE or deletes a row.
C23_PersistedGroupsApproved == [](EveryGroupApproved) /\ [][GroupsKept]_vars

\* approve_group has created the second row of the table
C23_Witness ==
    /\ last.op = "approve"
    /\ last.outcome = "activated"
    /\ Len(groups) = 2
    /\ groups[2].chat_id = last.chat_id
    /\ groups[2].is_approved

====
